---- MODULE Spec2Model ----
(***************************************************************************)
(* A model of the cryptocurrency dashboard of src/main.py: the two fetch   *)
(* functions (fetch_crypto_data, fetch_global_market_data), the two Dash   *)
(* callbacks that call them (update_graph, update_market_dominance) and    *)
(* the dispatch of the callbacks on a change of a dropdown.                *)
(*                                                                         *)
(* Numbers.  TLC's integers are 32 bits wide and an epoch-millis value is  *)
(* not, so a JSON number is kept as three digits groups: JNum(k, u, f) is  *)
(* the decimal 1000*k + u + f/10 with 0 <= u < 1000 and 0 <= f < 10.  The  *)
(* epoch-millis 1700000000000 is JNum(1700000000, 0, 0) and the price      *)
(* 43000.5 is JNum(43, 0, 5).                                              *)
(***************************************************************************)
EXTENDS Integers, Sequences, FiniteSets, Bags, TLC

VARIABLES
    tz,                 \* the time zone of the process (datetime.fromtimestamp reads it)
    sort_ties,          \* how the build's quicksort orders equal keys
    CRYPTO_LIST,        \* module global, main.py:12
    CURRENCY_LIST,      \* module global, main.py:25
    DAYS_LIST,          \* module global, main.py:28
    crypto_dropdown,    \* value of the component 'crypto-dropdown'
    currency_dropdown,  \* value of the component 'currency-dropdown'
    days_dropdown,      \* value of the component 'days-dropdown'
    price_graph,        \* figure of the component 'price-graph'
    marketcap_graph,    \* figure of the component 'marketcap-graph'
    in_flight,          \* bag of callback invocations blocked in requests.get
    last,               \* the last call that ended: the provider's answer and its result
    ref                 \* history: an earlier call that ended, kept to compare later ones with

vars == <<tz, sort_ties, CRYPTO_LIST, CURRENCY_LIST, DAYS_LIST, crypto_dropdown,
          currency_dropdown, days_dropdown, price_graph, marketcap_graph,
          in_flight, last, ref>>

----------------------------------------------------------------------------
(* Bounds of the model *)

\* the longest 'prices' list the provider answers with
MaxPoints == 2

\* the most entries of a 'market_cap_percentage' the provider answers with
MaxCoins == 11

\* the most callback invocations the server runs at a time
MaxInFlight == 2

----------------------------------------------------------------------------
(* JSON values, as response.json() builds them *)

JNull == [t |-> "null"]

JNum(k, u, f) == [t |-> "num", k |-> k, u |-> u, f |-> f]

JStr(s) == [t |-> "str", s |-> s]

JList(items) == [t |-> "list", items |-> items]

\* a dict keeps the order of its pairs <<key, value>>
JDict(pairs) == [t |-> "dict", pairs |-> pairs]

\* a response body that is no JSON text (an HTML error page)
NotJson == [t |-> "notjson"]

\* float('nan'), the value pandas pads a short row with
NaN == [t |-> "nan"]

HasKey(d, key) == \E i \in 1..Len(d.pairs) : d.pairs[i][1] = key

GetKey(d, key) ==
    d.pairs[CHOOSE i \in 1..Len(d.pairs) : d.pairs[i][1] = key][2]

\* a < b for two JSON numbers
NumLess(a, b) ==
    \/ a.k < b.k
    \/ a.k = b.k /\ a.u < b.u
    \/ a.k = b.k /\ a.u = b.u /\ a.f < b.f

----------------------------------------------------------------------------
(* What a Python call does: it returns a value or raises an exception *)

Returned(v) == [kind |-> "return", value |-> v]

Raised(e) == [kind |-> "raise", exc |-> e]

\* the classes "except requests.exceptions.RequestException" catches; since
\* requests 2.27 the JSONDecodeError of response.json() is one of them
IsRequestException(e) == e \in {"ConnectionError", "Timeout", "JSONDecodeError"}

\* pd.DataFrame(): no columns, no rows
EmptyDataFrame == [columns |-> <<>>, rows |-> <<>>]

\* pd.DataFrame(columns=[...]): the columns, no rows
NoRows(columns) == [columns |-> columns, rows |-> <<>>]

\* DataFrame.empty: some axis has length 0
IsEmpty(df) == Len(df.columns) = 0 \/ Len(df.rows) = 0

\* bool(v) of a JSON value
Truthy(v) ==
    CASE v.t = "null" -> FALSE
      [] v.t = "num"  -> ~(v.k = 0 /\ v.u = 0 /\ v.f = 0)
      [] v.t = "str"  -> v.s # ""
      [] v.t = "list" -> Len(v.items) > 0
      [] v.t = "dict" -> Len(v.pairs) > 0
      [] OTHER        -> TRUE

----------------------------------------------------------------------------
(* datetime.fromtimestamp(ts / 1000): local calendar time *)

\* the time zones a process may run in: the offset from UTC in seconds, and the
\* summer-time offset that holds from dst_from until dst_until (epoch seconds)
TimeZones ==
    { [name |-> "UTC", std |-> 0, dst |-> 0, dst_from |-> 0, dst_until |-> 0],
      [name |-> "Europe/Berlin", std |-> 3600, dst |-> 7200,
       dst_from |-> 1679792400, dst_until |-> 1698541200],
      [name |-> "America/New_York", std |-> 0 - 18000, dst |-> 0 - 14400,
       dst_from |-> 1678604400, dst_until |-> 1699164000] }

UTC == CHOOSE zone \in TimeZones : zone.name = "UTC"

utcoffset(zone, s) ==
    IF zone.dst_from <= s /\ s < zone.dst_until THEN zone.dst ELSE zone.std

\* the proleptic Gregorian date of a day number (days since 1970-01-01)
civil_from_days(days) ==
    LET z   == days + 719468
        era == z \div 146097
        doe == z - era * 146097
        yoe == (doe - (doe \div 1460) + (doe \div 36524) - (doe \div 146096)) \div 365
        doy == doe - (365 * yoe + (yoe \div 4) - (yoe \div 100))
        mp  == (5 * doy + 2) \div 153
        d   == doy - ((153 * mp + 2) \div 5) + 1
        m   == IF mp < 10 THEN mp + 3 ELSE mp - 9
        y   == yoe + era * 400 + (IF m <= 2 THEN 1 ELSE 0)
    IN  [year |-> y, month |-> m, day |-> d]

\* fromtimestamp with the seconds cut to a whole number first
fromtimestamp_whole_seconds(zone, ts) ==
    LET local == ts.k + utcoffset(zone, ts.k)
        date  == civil_from_days(local \div 86400)
        sod   == local % 86400
    IN  [year |-> date.year, month |-> date.month, day |-> date.day,
         hour |-> sod \div 3600, minute |-> (sod % 3600) \div 60,
         second |-> sod % 60, microsecond |-> 0]

\* the naive datetime of ts/1000 seconds after the epoch in the zone; ts is a
\* JSON number of milliseconds, so ts/1000 is ts.k seconds and ts.u milliseconds
fromtimestamp(zone, ts) ==
    LET local == ts.k + utcoffset(zone, ts.k)
        date  == civil_from_days(local \div 86400)
        sod   == local % 86400
    IN  [year |-> date.year, month |-> date.month, day |-> date.day,
         hour |-> sod \div 3600, minute |-> (sod % 3600) \div 60,
         second |-> sod % 60, microsecond |-> ts.u * 1000 + ts.f * 100]

\* the lambda of main.py:59 on one cell of the column: a number converts,
\* NaN is refused by fromtimestamp, anything else cannot be divided by 1000
convert_cell(zone, ts) ==
    CASE ts.t = "num" -> Returned(fromtimestamp(zone, ts))
      [] ts.t = "nan" -> Raised("ValueError")
      [] OTHER        -> Raised("TypeError")

----------------------------------------------------------------------------
(* fetch_crypto_data *)

API_URL_HISTORY == "https://api.coingecko.com/api/v3/coins/"

\* the f-string of main.py:51, piece by piece
history_url(coin_id, currency, days) ==
    <<API_URL_HISTORY, coin_id, "/market_chart?vs_currency=", currency, "&days=", days>>

\* the provider's answer to one GET: requests.get raises, or a response
NetworkError(e) == [net |-> e]

Response(status, body) == [net |-> "ok", status |-> status, body |-> body]

\* response.json()
response_json(resp) ==
    IF resp.body.t = "notjson" THEN Raised("JSONDecodeError") ELSE Returned(resp.body)

\* 'prices' in data_history: key of a dict, element of a list, substring of a
\* string (the model's strings hold 'prices' only when they equal it); any
\* other value is not iterable
contains(data, key) ==
    CASE data.t = "dict" -> Returned(HasKey(data, key))
      [] data.t = "list" -> Returned(\E i \in 1..Len(data.items) : data.items[i] = JStr(key))
      [] data.t = "str"  -> Returned(data.s = key)
      [] OTHER           -> Raised("TypeError")

\* data_history['prices']
subscript(data, key) ==
    IF data.t = "dict"
    THEN IF HasKey(data, key) THEN Returned(GetKey(data, key)) ELSE Raised("KeyError")
    ELSE Raised("TypeError")

Max(S) == CHOOSE x \in S : \A y \in S : y <= x

\* pd.DataFrame(data, columns=[c1, c2]): a row is a tuple <<cell 1, cell 2>>.
\* An empty list gives a frame of no rows.  A list of lists is a table whose
\* width is its longest row, shorter rows padded with NaN, and the width must
\* be the number of columns.  A list of scalars is one column wide, and a
\* value that is no list is refused.
DataFrame(data, columns) ==
    IF data.t # "list" THEN Raised("ValueError")
    ELSE LET n == Len(data.items)
             IsRow(i) == data.items[i].t = "list"
             width == Max({Len(data.items[i].items) : i \in {j \in 1..n : IsRow(j)}} \cup {0})
             cell(i, c) == IF c <= Len(data.items[i].items)
                           THEN data.items[i].items[c] ELSE NaN
         IN  IF n = 0 THEN Returned(NoRows(columns))
             ELSE IF \E i \in 1..n : ~IsRow(i) THEN Raised("ValueError")
             ELSE IF width # Len(columns) THEN Raised("ValueError")
             ELSE Returned([columns |-> columns,
                            rows |-> [i \in 1..n |->
                                        <<cell(i, 1), cell(i, 2)>>]])

\* df['timestamp'] = df['timestamp'].apply(lambda ts: datetime.fromtimestamp(ts / 1000))
apply_fromtimestamp(zone, df) ==
    LET n == Len(df.rows)
        conv(i) == convert_cell(zone, df.rows[i][1])
    IN  IF \E i \in 1..n : conv(i).kind = "raise"
        THEN Raised(conv(CHOOSE i \in 1..n :
                           /\ conv(i).kind = "raise"
                           /\ \A j \in 1..(i - 1) : conv(j).kind = "return").exc)
        ELSE Returned([df EXCEPT !.rows =
                         [i \in 1..n |-> <<conv(i).value, df.rows[i][2]>>]])

\* the try block of fetch_crypto_data after requests.get has answered
history_try(zone, answer) ==
    IF answer.net # "ok" THEN Raised(answer.net)
    ELSE LET data_history == response_json(answer)
         IN  IF data_history.kind = "raise" THEN data_history
             ELSE LET has == contains(data_history.value, "prices")
                  IN  IF has.kind = "raise" THEN has
                      ELSE IF ~has.value THEN Returned(EmptyDataFrame)
                      ELSE LET prices == subscript(data_history.value, "prices")
                           IN  IF prices.kind = "raise" THEN prices
                               ELSE IF ~Truthy(prices.value) THEN Returned(EmptyDataFrame)
                               ELSE LET df_history ==
                                            DataFrame(prices.value, <<"timestamp", "price">>)
                                    IN  IF df_history.kind = "raise" THEN df_history
                                        ELSE apply_fromtimestamp(zone, df_history.value)

\* fetch_crypto_data(coin_id, currency, days) given the provider's answer to
\* its GET: the except clause turns a RequestException into the empty frame
fetch_crypto_data(zone, answer) ==
    LET r == history_try(zone, answer)
    IN  IF r.kind = "raise" /\ IsRequestException(r.exc)
        THEN Returned(EmptyDataFrame)
        ELSE r

----------------------------------------------------------------------------
(* fetch_global_market_data *)

API_URL_GLOBAL == "https://api.coingecko.com/api/v3/global"

\* str.capitalize() on the coin symbols of the model
Capitalized ==
    [btc |-> "Btc", eth |-> "Eth", usdt |-> "Usdt", bnb |-> "Bnb", sol |-> "Sol",
     xrp |-> "Xrp", usdc |-> "Usdc", steth |-> "Steth", doge |-> "Doge",
     trx |-> "Trx", ada |-> "Ada", link |-> "Link", avax |-> "Avax"]

capitalize(s) == IF s \in DOMAIN Capitalized THEN Capitalized[s] ELSE s

\* list(market_data.items()): only a dict has items()
items(market_data) ==
    IF market_data.t = "dict"
    THEN Returned(JList([i \in 1..Len(market_data.pairs) |->
                           JList(<<JStr(market_data.pairs[i][1]), market_data.pairs[i][2]>>)]))
    ELSE Raised("AttributeError")

\* df_market['coin'] = df_market['coin'].str.capitalize()
capitalize_coin(df) ==
    [df EXCEPT !.rows = [i \in 1..Len(df.rows) |->
                           <<JStr(capitalize(df.rows[i][1].s)), df.rows[i][2]>>]]

\* insert_desc with the comparison turned round: ascending order
insert_asc(ties, sorted, row) ==
    LET before(r) == \/ NumLess(r[2], row[2])
                     \/ ties = "kept" /\ ~NumLess(row[2], r[2])
        n == Cardinality({i \in 1..Len(sorted) : before(sorted[i])})
    IN  SubSeq(sorted, 1, n) \o <<row>> \o SubSeq(sorted, n + 1, Len(sorted))

\* where the next row goes among the rows already placed, which are in
\* descending order: after every row that is greater, and after the equal
\* ones as well when the sort keeps equal keys in their order
insert_desc(ties, sorted, row) ==
    LET before(r) == \/ NumLess(row[2], r[2])
                     \/ ties = "kept" /\ ~NumLess(r[2], row[2])
        n == Cardinality({i \in 1..Len(sorted) : before(sorted[i])})
    IN  SubSeq(sorted, 1, n) \o <<row>> \o SubSeq(sorted, n + 1, Len(sorted))

RECURSIVE sort_rows(_, _)
sort_rows(ties, rows) ==
    IF rows = <<>> THEN <<>>
    ELSE insert_desc(ties, sort_rows(ties, SubSeq(rows, 1, Len(rows) - 1)), rows[Len(rows)])

\* df.sort_values(by='percentage', ascending=False): quicksort is not stable,
\* so rows of equal percentage come out in the order the build gives them
sort_values_desc(ties, df) == [df EXCEPT !.rows = sort_rows(ties, df.rows)]

\* df.head(n)
head(df, n) ==
    [df EXCEPT !.rows = SubSeq(df.rows, 1, IF Len(df.rows) < n THEN Len(df.rows) ELSE n)]

\* the try block of fetch_global_market_data after requests.get has answered
global_try(ties, answer) ==
    IF answer.net # "ok" THEN Raised(answer.net)
    ELSE LET mdata == response_json(answer)
         IN  IF mdata.kind = "raise" THEN mdata
             ELSE LET data == subscript(mdata.value, "data")
                  IN  IF data.kind = "raise" THEN data
                      ELSE LET market_data == subscript(data.value, "market_cap_percentage")
                           IN  IF market_data.kind = "raise" THEN market_data
                               ELSE LET pairs == items(market_data.value)
                                    IN  IF pairs.kind = "raise" THEN pairs
                                        ELSE LET df_market ==
                                                   DataFrame(pairs.value, <<"coin", "percentage">>)
                                             IN  IF df_market.kind = "raise" THEN df_market
                                                 ELSE Returned(head(sort_values_desc(ties,
                                                          capitalize_coin(df_market.value)), 10))

\* fetch_global_market_data() given the provider's answer to its GET
fetch_global_market_data(ties, answer) ==
    LET r == global_try(ties, answer)
    IN  IF r.kind = "raise" /\ IsRequestException(r.exc)
        THEN Returned(EmptyDataFrame)
        ELSE r

----------------------------------------------------------------------------
(* The callbacks *)

\* dict.get(key, default)
get(d, key, default) == IF key \in DOMAIN d THEN d[key] ELSE default

\* px.line / px.bar of a frame: the two columns as the x and the y of the trace
Trace(df) ==
    [x |-> [i \in 1..Len(df.rows) |-> df.rows[i][1]],
     y |-> [i \in 1..Len(df.rows) |-> df.rows[i][2]]]

\* px.line(pd.DataFrame(columns=['timestamp', 'price'])): a chart of nothing
EmptyLine ==
    [type |-> "line", trace |-> Trace(NoRows(<<"timestamp", "price">>)),
     xaxis |-> <<"index">>, yaxis |-> <<"value">>, title |-> <<>>, template |-> "plotly"]

\* px.bar(pd.DataFrame(columns=['coin', 'percentage'])): a chart of nothing
EmptyBar ==
    [type |-> "bar", trace |-> Trace(NoRows(<<"coin", "percentage">>)),
     xaxis |-> <<"index">>, yaxis |-> <<"value">>, title |-> <<>>, template |-> "plotly"]

\* update_graph that keeps the chart on show when the fetch brings nothing
update_graph_keeps_chart(selected_coin, selected_currency, days, fetched) ==
    IF fetched.kind = "raise" THEN fetched
    ELSE LET df_history == fetched.value
         IN  IF ~IsEmpty(df_history)
             THEN Returned(
                    [type |-> "line", trace |-> Trace(df_history),
                     xaxis |-> <<"Date">>,
                     yaxis |-> <<"Price (", get(CURRENCY_LIST, selected_currency, "None"), ")">>,
                     title |-> <<get(CRYPTO_LIST, selected_coin, selected_coin),
                                 " Price (Last 7 Days)">>,
                     template |-> "plotly_dark"])
             ELSE Returned(price_graph)

\* update_graph(selected_coin, selected_currency, days) once fetch_crypto_data
\* has returned or raised; the title names 7 days whatever days is
update_graph(selected_coin, selected_currency, days, fetched) ==
    IF fetched.kind = "raise" THEN fetched
    ELSE LET df_history == fetched.value
         IN  IF ~IsEmpty(df_history)
             THEN Returned(
                    [type |-> "line", trace |-> Trace(df_history),
                     xaxis |-> <<"Date">>,
                     yaxis |-> <<"Price (", get(CURRENCY_LIST, selected_currency, "None"), ")">>,
                     title |-> <<get(CRYPTO_LIST, selected_coin, selected_coin),
                                 " Price (Last 7 Days)">>,
                     template |-> "plotly_dark"])
             ELSE Returned(EmptyLine)

\* update_market_dominance(_) once fetch_global_market_data has returned or raised
update_market_dominance(ignored, fetched) ==
    IF fetched.kind = "raise" THEN fetched
    ELSE LET df_dominance == fetched.value
         IN  IF ~IsEmpty(df_dominance)
             THEN Returned(
                    [type |-> "bar", trace |-> Trace(df_dominance),
                     xaxis |-> <<"Coin">>, yaxis |-> <<"Percentage">>,
                     title |-> <<"Cryptocurrency Market Cap Dominance">>,
                     template |-> "plotly_dark"])
             ELSE Returned(EmptyBar)

\* the registration with update_market_dominance put on the currency dropdown
CallbackInputs_dominance_on_currency ==
    [update_graph |-> {"crypto-dropdown", "currency-dropdown", "days-dropdown"},
     update_market_dominance |-> {"currency-dropdown"}]

\* @app.callback: the components whose change fires each callback
CallbackInputs ==
    [update_graph |-> {"crypto-dropdown", "currency-dropdown", "days-dropdown"},
     update_market_dominance |-> {"crypto-dropdown"}]

----------------------------------------------------------------------------
(* What the provider and the user may do *)

\* the selections the user moves between
Coins == {"bitcoin", "ethereum"}

Currencies == {"usd", "eur"}

DayWindows == {7, 30}

Timestamps ==
    { JNum(1700000000, 0, 0), JNum(1700003600, 0, 0), JNum(1700000000, 500, 0),
      JNum(1698539400, 0, 0), JNum(1698543000, 0, 0) }

Prices == { JNum(43, 0, 5), JNum(43, 100, 0) }

Point(ts, price) == JList(<<ts, price>>)

\* the well-formed 'prices' lists of 1..MaxPoints points
RECURSIVE PointLists(_)
PointLists(n) ==
    IF n = 0 THEN {<<>>}
    ELSE LET shorter == PointLists(n - 1)
         IN  shorter \cup
             { Append(l, Point(ts, p)) : l \in {m \in shorter : Len(m) = n - 1},
                                         ts \in Timestamps, p \in Prices }

WellFormedHistory ==
    { JDict(<<<<"prices", JList(l)>>>>) : l \in PointLists(MaxPoints) \ {<<>>} }

ErrorBody == JDict(<<<<"status", JDict(<<<<"error_code", JNum(0, 429, 0)>>>>)>>>>)

\* bodies without a usable 'prices': no JSON, JSON of another shape, an empty
\* or missing field, and rows that are no [epoch-millis, price] pairs
OtherHistoryBodies ==
    { NotJson, JNull, JNum(0, 5, 0), JList(<<>>), JStr("prices"), ErrorBody,
      JDict(<<<<"prices", JList(<<>>)>>>>),
      JDict(<<<<"prices", JNull>>>>),
      JDict(<<<<"prices", JNum(0, 5, 0)>>>>),
      JDict(<<<<"prices", JList(<<JNum(1700000000, 0, 0)>>)>>>>),
      JDict(<<<<"prices", JList(<<JList(<<JNum(1700000000, 0, 0)>>)>>)>>>>),
      JDict(<<<<"prices", JList(<<JList(<<JNum(1700000000, 0, 0), JNum(43, 0, 5),
                                          JNum(0, 1, 0)>>)>>)>>>>),
      JDict(<<<<"prices", JList(<<Point(JStr("2023-11-14"), JNum(43, 0, 5))>>)>>>>),
      JDict(<<<<"prices", JList(<<Point(JNull, JNum(43, 0, 5))>>)>>>>),
      JDict(<<<<"prices", JList(<<Point(JNum(1700000000, 0, 0), JNum(43, 0, 5)),
                                  JList(<<JNum(1700003600, 0, 0)>>)>>)>>>>) }

Statuses == {200, 429, 500}

NetworkErrors == { NetworkError("ConnectionError"), NetworkError("Timeout") }

HistoryAnswers ==
    NetworkErrors \cup
    { Response(st, b) : st \in Statuses, b \in WellFormedHistory \cup OtherHistoryBodies }

\* the symbols the provider reports a share for, in the order it lists them
CoinKeys ==
    <<"btc", "eth", "usdt", "bnb", "sol", "xrp", "usdc", "steth", "doge", "trx",
      "ada", "link", "avax">>

\* the shares it reports: 52.3 and 6.5 per cent
Percentages == { JNum(0, 52, 3), JNum(0, 6, 5) }

\* the 'market_cap_percentage' dicts of 0..n entries
RECURSIVE ShareLists(_)
ShareLists(n) ==
    IF n = 0 THEN {<<>>}
    ELSE LET shorter == ShareLists(n - 1)
         IN  shorter \cup
             { Append(l, <<CoinKeys[n], pct>>) : l \in {m \in shorter : Len(m) = n - 1},
                                                 pct \in Percentages }

GlobalBody(market_cap_percentage) ==
    JDict(<<<<"data", JDict(<<<<"active_cryptocurrencies", JNum(17, 0, 0)>>,
                              <<"market_cap_percentage", market_cap_percentage>>>>)>>>>)

WellFormedGlobal ==
    { GlobalBody(JDict(l)) :
        l \in ShareLists(IF MaxCoins < Len(CoinKeys) THEN MaxCoins ELSE Len(CoinKeys)) }

\* bodies without a usable 'data.market_cap_percentage'
OtherGlobalBodies ==
    { NotJson, JNull, JList(<<>>), ErrorBody,
      JDict(<<<<"data", JNull>>>>),
      JDict(<<<<"data", JDict(<<>>)>>>>),
      GlobalBody(JNull),
      GlobalBody(JList(<<>>)) }

GlobalAnswers ==
    NetworkErrors \cup
    { Response(200, b) : b \in WellFormedGlobal } \cup
    { Response(st, b) : st \in Statuses, b \in OtherGlobalBodies }

----------------------------------------------------------------------------
(* The state after the module is loaded *)

NoCall == [fn |-> "none"]

TieRules == {"kept", "reversed"}

\* the dict literal of main.py:12
CryptoTable ==
    [c \in {"bitcoin", "ethereum", "tether", "binancecoin", "solana", "ripple",
            "dogecoin", "usd-coin", "staked-ether", "tron"} |->
       CASE c = "bitcoin"      -> "Bitcoin (BTC)"
         [] c = "ethereum"     -> "Ethereum (ETH)"
         [] c = "tether"       -> "Tether (USDT)"
         [] c = "binancecoin"  -> "BinanceCoin (BNB)"
         [] c = "solana"       -> "Solana (SOL)"
         [] c = "ripple"       -> "Ripple (XRP)"
         [] c = "dogecoin"     -> "Dogecoin (DOGE)"
         [] c = "usd-coin"     -> "USD Coin (USDC)"
         [] c = "staked-ether" -> "Lido Staked Ether (STETH)"
         [] c = "tron"         -> "Tron (TRX)"]

\* the dict literal of main.py:25 (the currency signs in ASCII)
CurrencyTable ==
    [usd |-> "USD ($)", eur |-> "EUR (E)", jpy |-> "JPY (Y)", gbp |-> "GBP (L)",
     cad |-> "CAD ($)"]

\* the dict literal of main.py:28
DaysTable ==
    [l \in {"Last 1 day", "Last 7 days", "Last 30 days", "Last 60 days",
            "Last 90 days"} |->
       CASE l = "Last 1 day"   -> 1
         [] l = "Last 7 days"  -> 7
         [] l = "Last 30 days" -> 30
         [] l = "Last 60 days" -> 60
         [] l = "Last 90 days" -> 90]

\* the globals are bound and the layout gives each dropdown its default value
Loaded ==
    /\ CRYPTO_LIST = CryptoTable
    /\ CURRENCY_LIST = CurrencyTable
    /\ DAYS_LIST = DaysTable
    /\ crypto_dropdown = "bitcoin"
    /\ currency_dropdown = "usd"
    /\ days_dropdown = 7
    /\ price_graph = [type |-> "none"]
    /\ marketcap_graph = [type |-> "none"]
    /\ in_flight = EmptyBag
globals == <<tz, sort_ties, CRYPTO_LIST, CURRENCY_LIST, DAYS_LIST>>

dashboard == <<crypto_dropdown, currency_dropdown, days_dropdown, price_graph,
               marketcap_graph, in_flight>>

----------------------------------------------------------------------------
(* A call of fetch_crypto_data on its own, as src/Test.py makes it: the     *)
(* arguments and the provider's answer are drawn, then the call runs        *)

Pending == [kind |-> "pending"]

InitPrice ==
    /\ Loaded
    /\ tz \in TimeZones
    /\ sort_ties = "kept"
    /\ ref = NoCall
    /\ \E coin_id \in Coins, currency \in Currencies, days \in DayWindows,
          answer \in HistoryAnswers :
           last = [fn |-> "fetch_crypto_data", args |-> <<coin_id, currency, days>>,
                   requests |-> <<>>, answer |-> answer, result |-> Pending]

CallFetchCryptoData ==
    /\ last.fn = "fetch_crypto_data"
    /\ last.result.kind = "pending"
    /\ last' = [last EXCEPT
                  !.requests = <<history_url(last.args[1], last.args[2], last.args[3])>>,
                  !.result = fetch_crypto_data(tz, last.answer)]
    /\ UNCHANGED <<globals, dashboard, ref>>

SpecPrice == InitPrice /\ [][CallFetchCryptoData]_vars

----------------------------------------------------------------------------
(* A call of fetch_global_market_data on its own *)

InitMarket ==
    /\ Loaded
    /\ tz = UTC
    /\ sort_ties \in TieRules
    /\ ref = NoCall
    /\ \E answer \in GlobalAnswers :
           last = [fn |-> "fetch_global_market_data", args |-> <<>>,
                   requests |-> <<>>, answer |-> answer, result |-> Pending]

CallFetchGlobalMarketData ==
    /\ last.fn = "fetch_global_market_data"
    /\ last.result.kind = "pending"
    /\ last' = [last EXCEPT
                  !.requests = <<API_URL_GLOBAL>>,
                  !.result = fetch_global_market_data(sort_ties, last.answer)]
    /\ UNCHANGED <<globals, dashboard, ref>>

SpecMarket == InitMarket /\ [][CallFetchGlobalMarketData]_vars

----------------------------------------------------------------------------
(* The dashboard: a change of a dropdown fires the callbacks registered on  *)
(* it, each in a request of its own that the threaded server runs as far as *)
(* requests.get; the callback goes on when the provider has answered        *)

\* the answers the provider gives the running dashboard
DashboardHistoryAnswers ==
    { Response(500, ErrorBody),
      Response(200, JDict(<<<<"prices", JList(<<JList(<<JNum(1700000000, 0, 0)>>)>>)>>>>)),
      Response(200, JDict(<<<<"prices",
          JList(<<Point(JNum(1700000000, 0, 0), JNum(43, 0, 5))>>)>>>>)) }

DashboardGlobalAnswers ==
    { NetworkError("ConnectionError"),
      Response(500, ErrorBody),
      Response(200, GlobalBody(JDict(<<<<"eth", JNum(0, 6, 5)>>, <<"btc", JNum(0, 52, 3)>>>>))) }

\* a callback on its way: it has sent its GET and waits for the answer
Invocation(callback, selected_coin, selected_currency, days) ==
    IF callback = "update_graph"
    THEN [callback |-> callback, args |-> <<selected_coin, selected_currency, days>>,
          requests |-> <<history_url(selected_coin, selected_currency, days)>>]
    ELSE [callback |-> callback, args |-> <<selected_coin>>,
          requests |-> <<API_URL_GLOBAL>>]

\* the callbacks a change of the component fires
Fired(component) ==
    {callback \in DOMAIN CallbackInputs : component \in CallbackInputs[callback]}

RECURSIVE Started(_, _, _, _)
Started(callbacks, selected_coin, selected_currency, days) ==
    IF callbacks = {} THEN EmptyBag
    ELSE LET callback == CHOOSE c \in callbacks : TRUE
         IN  SetToBag({Invocation(callback, selected_coin, selected_currency, days)})
             (+) Started(callbacks \ {callback}, selected_coin, selected_currency, days)

\* the dropdowns take their new values and every callback fired is started
Dispatch(component, selected_coin, selected_currency, days) ==
    /\ BagCardinality(in_flight) + Cardinality(Fired(component)) <= MaxInFlight
    /\ crypto_dropdown' = selected_coin
    /\ currency_dropdown' = selected_currency
    /\ days_dropdown' = days
    /\ in_flight' = in_flight
                    (+) Started(Fired(component), selected_coin, selected_currency, days)
    /\ UNCHANGED <<globals, price_graph, marketcap_graph, last, ref>>

SelectCrypto ==
    \E value \in Coins \ {crypto_dropdown} :
        Dispatch("crypto-dropdown", value, currency_dropdown, days_dropdown)

SelectCurrency ==
    \E value \in Currencies \ {currency_dropdown} :
        Dispatch("currency-dropdown", crypto_dropdown, value, days_dropdown)

SelectDays ==
    \E value \in DayWindows \ {days_dropdown} :
        Dispatch("days-dropdown", crypto_dropdown, currency_dropdown, value)

\* the calls that ref may keep: those made on the selection the page opens with
Observed(call) ==
    \/ call.callback = "update_graph" /\ call.args = <<"bitcoin", "usd", 7>>
    \/ call.callback = "update_market_dominance" /\ call.args = <<"bitcoin">>

\* the call is recorded as the last one that ended, with whether it repeats
\* the call ref keeps (the same callback, arguments and answer); ref keeps the
\* first call it chooses to keep, with the arguments it was made with
Ended(call, answer, result) ==
    LET record == [fn |-> call.callback, gets |-> Len(call.requests),
                   answer |-> answer, result |-> result, repeats_ref |-> FALSE]
    IN  /\ last' = [record EXCEPT !.repeats_ref =
                       ref # NoCall /\ ref.call = call /\ ref.ended.answer = answer]
        /\ ref' \in {ref} \cup (IF ref = NoCall /\ Observed(call)
                                THEN {[fn |-> "kept", call |-> call, ended |-> record]}
                                ELSE {})

\* the answer reaches an update_graph that waits: the fetch ends, the callback
\* ends, and the figure it returns is shown; a raise leaves the graph as it is
ReturnUpdateGraph ==
    \E call \in BagToSet(in_flight), answer \in DashboardHistoryAnswers :
        /\ call.callback = "update_graph"
        /\ LET fetched == fetch_crypto_data(tz, answer)
               result  == update_graph(call.args[1], call.args[2], call.args[3], fetched)
           IN  /\ price_graph' = IF result.kind = "return" THEN result.value
                                 ELSE price_graph
               /\ Ended(call, answer, result)
        /\ in_flight' = in_flight (-) SetToBag({call})
        /\ UNCHANGED <<globals, crypto_dropdown, currency_dropdown, days_dropdown,
                       marketcap_graph>>

ReturnUpdateMarketDominance ==
    \E call \in BagToSet(in_flight), answer \in DashboardGlobalAnswers :
        /\ call.callback = "update_market_dominance"
        /\ LET fetched == fetch_global_market_data(sort_ties, answer)
               result  == update_market_dominance(call.args[1], fetched)
           IN  /\ marketcap_graph' = IF result.kind = "return" THEN result.value
                                     ELSE marketcap_graph
               /\ Ended(call, answer, result)
        /\ in_flight' = in_flight (-) SetToBag({call})
        /\ UNCHANGED <<globals, crypto_dropdown, currency_dropdown, days_dropdown,
                       price_graph>>

\* the server has started and no callback has run; the zone and the order of
\* equal keys are examined with the fetches on their own
Init ==
    /\ Loaded
    /\ tz = UTC
    /\ sort_ties = "kept"
    /\ last = NoCall
    /\ ref = NoCall

Next ==
    \/ SelectCrypto
    \/ SelectCurrency
    \/ SelectDays
    \/ ReturnUpdateGraph
    \/ ReturnUpdateMarketDominance

Spec == Init /\ [][Next]_vars

----------------------------------------------------------------------------
(* Notions the properties are stated with *)

\* the call under test has run
Done(fn) == last.fn = fn /\ last.result.kind # "pending"

\* a 2xx status
IsSuccess(status) == 200 <= status /\ status < 300

\* the request failed: no response, or a status that is not 2xx
RequestFailed(answer) == answer.net # "ok" \/ ~IsSuccess(answer.status)

\* the answer is a failure of the price endpoint: no response, a status that
\* is not 2xx, or a body that is no well-formed 'prices' payload
HistoryFailure(answer) ==
    \/ answer.net # "ok"
    \/ ~IsSuccess(answer.status)
    \/ answer.body \notin WellFormedHistory

\* the answer is a failure of the global endpoint
GlobalFailure(answer) ==
    \/ answer.net # "ok"
    \/ ~IsSuccess(answer.status)
    \/ answer.body \notin WellFormedGlobal

\* the 'prices' list of a well-formed body
PricesOf(answer) == GetKey(answer.body, "prices").items

\* the 'market_cap_percentage' pairs of a well-formed body
SharesOf(answer) == GetKey(GetKey(answer.body, "data"), "market_cap_percentage").pairs

\* the day number of a proleptic Gregorian date
days_from_civil(y, m, d) ==
    LET yy  == IF m <= 2 THEN y - 1 ELSE y
        era == yy \div 400
        yoe == yy - era * 400
        doy == ((153 * (IF m > 2 THEN m - 3 ELSE m + 9) + 2) \div 5) + d - 1
        doe == yoe * 365 + (yoe \div 4) - (yoe \div 100) + doy
    IN  era * 146097 + doe - 719468

\* the seconds from 1970-01-01T00:00:00 to a naive datetime read as UTC
SecondsOf(dt) ==
    days_from_civil(dt.year, dt.month, dt.day) * 86400
        + dt.hour * 3600 + dt.minute * 60 + dt.second

\* a < b for two naive datetimes
DateTimeLess(a, b) ==
    \/ SecondsOf(a) < SecondsOf(b)
    \/ SecondsOf(a) = SecondsOf(b) /\ a.microsecond < b.microsecond

DateTime(y, mo, d, h, mi, sec) ==
    [year |-> y, month |-> mo, day |-> d, hour |-> h, minute |-> mi, second |-> sec,
     microsecond |-> 0]

----------------------------------------------------------------------------
(* The properties *)

\* C1: fetch_crypto_data never raises: on a network failure, a non-2xx
\* response, a body that is no JSON, a JSON body without 'prices', an empty
\* 'prices' or malformed entries it returns the empty result.
C1_FailSoft ==
    (Done("fetch_crypto_data") /\ HistoryFailure(last.answer))
        => last.result = Returned(EmptyDataFrame)

\* C2: fetch_global_market_data never raises: on a network failure, a non-2xx
\* response or a payload without a usable 'data.market_cap_percentage' it
\* returns the empty result.
C2_FailSoft ==
    (Done("fetch_global_market_data") /\ GlobalFailure(last.answer))
        => last.result = Returned(EmptyDataFrame)

\* C3: for a well-formed payload of N >= 1 [epoch-millis, price] pairs the
\* fetch returns N rows (timestamp, price); row i has the price of pair i and
\* the calendar time of pair i's epoch-millis: read back as seconds and
\* microseconds, less the zone's offset, it is the epoch-millis again.
C3_SeriesOfPayload ==
    (Done("fetch_crypto_data") /\ last.answer.net = "ok"
       /\ last.answer.body \in WellFormedHistory)
        => LET prices == PricesOf(last.answer)
               r == last.result
           IN  /\ r.kind = "return"
               /\ r.value.columns = <<"timestamp", "price">>
               /\ Len(r.value.rows) = Len(prices)
               /\ \A i \in 1..Len(prices) :
                    LET ms == prices[i].items[1]
                        row == r.value.rows[i]
                    IN  /\ row[2] = prices[i].items[2]
                        /\ SecondsOf(row[1]) - utcoffset(tz, ms.k) = ms.k
                        /\ row[1].microsecond = ms.u * 1000 + ms.f * 100

C3_Witness ==
    /\ Done("fetch_crypto_data")
    /\ last.answer.net = "ok"
    /\ last.answer.body \in WellFormedHistory
    /\ Len(PricesOf(last.answer)) = MaxPoints
    /\ PricesOf(last.answer)[1].items[1].u = 500
    /\ last.result.kind = "return"
    /\ Len(last.result.value.rows) = MaxPoints

\* C4: for a successful payload of M entries the market fetch returns
\* min(M, 10) of them, those of the largest percentages, in descending order
\* of percentage.
C4_TopTenDescending ==
    (Done("fetch_global_market_data") /\ ~GlobalFailure(last.answer))
        => LET shares == SharesOf(last.answer)
               M == Len(shares)
               r == last.result
               rows == r.value.rows
               entries == {<<JStr(capitalize(shares[i][1])), shares[i][2]>> : i \in 1..M}
               returned == {rows[i] : i \in 1..Len(rows)}
           IN  /\ r.kind = "return"
               /\ Len(rows) = (IF M < 10 THEN M ELSE 10)
               /\ Cardinality(returned) = Len(rows)
               /\ returned \subseteq entries
               /\ \A e \in entries \ returned : \A k \in returned : ~NumLess(k[2], e[2])
               /\ \A i \in 1..(Len(rows) - 1) : ~NumLess(rows[i][2], rows[i + 1][2])

C4_Witness ==
    /\ Done("fetch_global_market_data")
    /\ ~GlobalFailure(last.answer)
    /\ Len(SharesOf(last.answer)) > 10
    /\ NumLess(SharesOf(last.answer)[1][2], SharesOf(last.answer)[2][2])
    /\ Len(last.result.value.rows) = 10
    /\ NumLess(last.result.value.rows[10][2], last.result.value.rows[1][2])

\* C5: update_graph and update_market_dominance never raise: when the
\* provider fails the callback returns the empty placeholder chart.
C5_CallbacksNeverRaise ==
    /\ last.fn = "update_graph" =>
         /\ last.result.kind = "return"
         /\ HistoryFailure(last.answer) => last.result.value = EmptyLine
    /\ last.fn = "update_market_dominance" =>
         /\ last.result.kind = "return"
         /\ GlobalFailure(last.answer) => last.result.value = EmptyBar

\* C6: for bitcoin, usd, 7 days and the payload
\* {"prices":[[1700000000000,43000.5],[1700003600000,43100.0]]} the series is
\* [(2023-11-14T22:13:20, 43000.5), (2023-11-14T23:13:20, 43100.0)], whatever
\* the time zone of the process.
C6_ScenarioSeries ==
    (/\ Done("fetch_crypto_data")
     /\ last.args = <<"bitcoin", "usd", 7>>
     /\ last.answer = Response(200, JDict(<<<<"prices",
            JList(<<Point(JNum(1700000000, 0, 0), JNum(43, 0, 5)),
                    Point(JNum(1700003600, 0, 0), JNum(43, 100, 0))>>)>>>>)))
        => /\ last.result.kind = "return"
           /\ last.result.value.rows =
                << <<DateTime(2023, 11, 14, 22, 13, 20), JNum(43, 0, 5)>>,
                   <<DateTime(2023, 11, 14, 23, 13, 20), JNum(43, 100, 0)>> >>

\* C7: a call of a fetch issues exactly one GET whatever its outcome, and a
\* failed request is surfaced as the empty result of that call, which the
\* callback that made the call shows as the empty chart.
C7_OneGetFailureEmpty ==
    /\ last.fn = "update_graph" =>
         /\ last.gets = 1
         /\ RequestFailed(last.answer) => last.result = Returned(EmptyLine)
    /\ last.fn = "update_market_dominance" =>
         /\ last.gets = 1
         /\ RequestFailed(last.answer) => last.result = Returned(EmptyBar)

\* C8 as the specification has it: a change of a selection causes exactly one
\* round trip, and no two fetches are in flight at the same time.
C8_OneRoundTripNoOverlap ==
    [][/\ (\/ crypto_dropdown' # crypto_dropdown
           \/ currency_dropdown' # currency_dropdown
           \/ days_dropdown' # days_dropdown)
          => BagCardinality(in_flight') = BagCardinality(in_flight) + 1
       /\ BagCardinality(in_flight') <= 1]_vars

\* C8, amended: a change of the asset fires both callbacks and a change of
\* the currency or of the day window fires update_graph alone; every callback
\* fired makes exactly one round trip, a GET of its own endpoint, and the
\* call that ends has made exactly one GET.  Nothing keeps the round trips of
\* different invocations apart.
C8_OneRoundTripPerCallback ==
    [][/\ crypto_dropdown' # crypto_dropdown
          => in_flight' = in_flight
               (+) SetToBag({[callback |-> "update_graph",
                              args |-> <<crypto_dropdown', currency_dropdown', days_dropdown'>>,
                              requests |-> <<history_url(crypto_dropdown', currency_dropdown',
                                                         days_dropdown')>>]})
               (+) SetToBag({[callback |-> "update_market_dominance",
                              args |-> <<crypto_dropdown'>>,
                              requests |-> <<API_URL_GLOBAL>>]})
       /\ (currency_dropdown' # currency_dropdown \/ days_dropdown' # days_dropdown)
          => in_flight' = in_flight
               (+) SetToBag({[callback |-> "update_graph",
                              args |-> <<crypto_dropdown', currency_dropdown', days_dropdown'>>,
                              requests |-> <<history_url(crypto_dropdown', currency_dropdown',
                                                         days_dropdown')>>]})
       /\ BagCardinality(in_flight') < BagCardinality(in_flight)
          => /\ BagCardinality(in_flight') = BagCardinality(in_flight) - 1
             /\ last'.gets = 1]_vars

C8_Witness ==
    /\ \E call \in BagToSet(in_flight) : call.callback = "update_graph"
    /\ \E call \in BagToSet(in_flight) : call.callback = "update_market_dominance"
    /\ last.fn = "update_graph"
    /\ last.gets = 1

\* C9: the returned series holds the provider's pairs in the provider's
\* order: where the epoch-millis of two neighbours increase strictly so do
\* the timestamps returned, and where they do not the timestamps do not.
C9_ProviderOrder ==
    (Done("fetch_crypto_data") /\ last.answer.net = "ok"
       /\ last.answer.body \in WellFormedHistory)
        => LET prices == PricesOf(last.answer)
               r == last.result
           IN  /\ r.kind = "return"
               /\ Len(r.value.rows) = Len(prices)
               /\ \A i \in 1..Len(prices) : r.value.rows[i][2] = prices[i].items[2]
               /\ \A i \in 1..(Len(prices) - 1) :
                    NumLess(prices[i].items[1], prices[i + 1].items[1])
                        <=> DateTimeLess(r.value.rows[i][1], r.value.rows[i + 1][1])

\* C10: no state is carried between requests: a call that repeats an earlier
\* one (the same callback, the same selected inputs, the same answer of the
\* provider) ends as the earlier one did, whatever happened in between; and
\* CRYPTO_LIST, CURRENCY_LIST and DAYS_LIST are what they were bound to.
C10_NoStateCarried ==
    /\ (last.fn \in DOMAIN CallbackInputs /\ last.repeats_ref)
           => last.result = ref.ended.result
    /\ CRYPTO_LIST = CryptoTable
    /\ CURRENCY_LIST = CurrencyTable
    /\ DAYS_LIST = DaysTable

C10_Witness ==
    /\ last.fn = "update_graph"
    /\ last.repeats_ref
    /\ last.result = Returned(EmptyLine)
    /\ price_graph = EmptyLine
    /\ marketcap_graph.type = "bar"
    /\ BagCardinality(in_flight) > 0

====
